---- MODULE Spec2Model ----
(***************************************************************************)
(* Model of the holiday-resolution pipeline of jpn_holiday_atlas           *)
(* (src/src/lib.rs, module holidays).                                      *)
(*                                                                         *)
(* A NaiveDate is modelled by its day number in the proleptic Gregorian    *)
(* calendar (0001-01-01 = 1, chrono's num_days_from_ce).  A formatted      *)
(* date ("%Y-%m-%d") is the triple <<year, month, day>>.  A name is a      *)
(* sequence of strings, so that format!("振替休日({})", name) is the       *)
(* sequence with the marker "furikae_kyujitsu" put in front.               *)
(* Strings of the source that are not ASCII are written romanised:         *)
(*   春分の日 = shunbun_no_hi, 秋分の日 = shubun_no_hi,                    *)
(*   振替休日 = furikae_kyujitsu.                                          *)
(* nth_weekday_of_month works on DateTime<Local>; the model takes a local  *)
(* time zone without daylight-saving transitions (as Asia/Tokyo), so that  *)
(* adding Duration::days(1) to local midnight is the next local midnight.  *)
(***************************************************************************)
EXTENDS Integers, Sequences, FiniteSets, TLC

VARIABLES year, catalog, pc, holidays, equinox_dates, i, startLen, log, output, error

vars == <<year, catalog, pc, holidays, equinox_dates, i, startLen, log, output, error>>

(***************************************************************************)
(* Bounds of the model and constants of the program.                       *)
(***************************************************************************)
\* longest catalog drawn freely from SmallPool
MaxRules == 3
\* largest occurrence index of a floating rule in the single-rule catalogs
MaxOccurrence == 6
\* cap on the length of the Vec in the engine's loop (never reached by the
\* program: see ListBelowCap)
MaxList == 16
\* get_equinox_date: if year < 2020 || year > 2050
MinEquinoxYear == 2020
MaxEquinoxYear == 2050
\* chrono: Weekday::Sun.num_days_from_monday()
Sun == 6
\* chrono: NaiveDate(1970-01-01).num_days_from_ce()
UnixEpochDay == 719163

NoDate == -1
NoMonth == 0
NoWeekday == -1

(***************************************************************************)
(* chrono's calendar, as far as the program uses it.                       *)
(***************************************************************************)
IsLeap(y) == (y % 4 = 0 /\ y % 100 # 0) \/ y % 400 = 0

DaysInMonth(y, m) ==
    CASE m \in {1, 3, 5, 7, 8, 10, 12} -> 31
      [] m \in {4, 6, 9, 11} -> 30
      [] OTHER -> IF IsLeap(y) THEN 29 ELSE 28

DaysBeforeYear(y) ==
    365 * (y - 1) + ((y - 1) \div 4) - ((y - 1) \div 100) + ((y - 1) \div 400)

RECURSIVE DaysBeforeMonth(_, _)
DaysBeforeMonth(y, m) ==
    IF m <= 1 THEN 0 ELSE DaysBeforeMonth(y, m - 1) + DaysInMonth(y, m - 1)

\* NaiveDate::from_ymd_opt: None (NoDate) when the day does not exist
from_ymd_opt(y, m, d) ==
    IF m \in 1..12 /\ d >= 1 /\ d <= DaysInMonth(y, m)
    THEN DaysBeforeYear(y) + DaysBeforeMonth(y, m) + d
    ELSE NoDate

RECURSIVE YearFrom(_, _)
YearFrom(date, y) ==
    IF date <= DaysBeforeYear(y + 1) THEN y ELSE YearFrom(date, y + 1)

\* Datelike::year
year_of(date) == YearFrom(date, (date \div 366) + 1)

RECURSIVE MonthFrom(_, _, _)
MonthFrom(y, ordinal, m) ==
    IF ordinal <= DaysBeforeMonth(y, m) + DaysInMonth(y, m) THEN m
    ELSE MonthFrom(y, ordinal, m + 1)

\* Datelike::month
month(date) ==
    LET y == year_of(date) IN MonthFrom(y, date - DaysBeforeYear(y), 1)

\* Datelike::day
day(date) ==
    LET y == year_of(date) IN date - DaysBeforeYear(y) - DaysBeforeMonth(y, month(date))

\* Datelike::weekday, as num_days_from_monday (Mon = 0 .. Sun = 6)
weekday(date) == (date - 1) % 7

\* date.format("%Y-%m-%d")
format_ymd(date) == <<year_of(date), month(date), day(date)>>

\* str.parse::<NaiveDate>() / NaiveDate::parse_from_str(.., "%Y-%m-%d")
parse_ymd(s) == from_ymd_opt(s[1], s[2], s[3])

(***************************************************************************)
(* The vocabulary of rule tokens.                                          *)
(***************************************************************************)
\* str::to_lowercase on the tokens the catalogs of the model use
to_lowercase(s) ==
    CASE s = "Jan" -> "jan"
      [] s = "MARCH" -> "march"
      [] s = "Sep" -> "sep"
      [] s = "Mon" -> "mon"
      [] s = "SUNDAY" -> "sunday"
      [] OTHER -> s

get_weekday_from_string(char) ==
    LET s == to_lowercase(char) IN
    CASE s \in {"monday", "mon"} -> 0
      [] s \in {"tuesday", "tue"} -> 1
      [] s \in {"wednesday", "wed"} -> 2
      [] s \in {"thursday", "thu"} -> 3
      [] s \in {"friday", "fri"} -> 4
      [] s \in {"saturday", "sat"} -> 5
      [] s \in {"sunday", "sun"} -> 6
      [] OTHER -> NoWeekday

get_month_num_from_string(char) ==
    LET s == to_lowercase(char) IN
    CASE s \in {"january", "jan"} -> 1
      [] s \in {"february", "feb"} -> 2
      [] s \in {"march", "mar"} -> 3
      [] s \in {"april", "apr"} -> 4
      [] s = "may" -> 5
      [] s \in {"june", "jun"} -> 6
      [] s \in {"july", "jul"} -> 7
      [] s \in {"august", "aug"} -> 8
      [] s \in {"september", "sep"} -> 9
      [] s \in {"october", "oct"} -> 10
      [] s \in {"november", "nov"} -> 11
      [] s \in {"december", "dec"} -> 12
      [] OTHER -> NoMonth

(***************************************************************************)
(* Rule Expander.                                                          *)
(***************************************************************************)
\* the loop of nth_weekday_of_month: the dates of the month with the target
\* weekday, pushed in the order the loop meets them
RECURSIVE WeekdayDatesFrom(_, _, _, _)
WeekdayDatesFrom(date, m, target_weekday, dates) ==
    IF month(date) = m
    THEN WeekdayDatesFrom(date + 1, m, target_weekday,
                          IF weekday(date) = target_weekday
                          THEN Append(dates, date) ELSE dates)
    ELSE dates

\* NthIndex with the index not brought to base 0: dates[n as usize]
NthIndexOffByOne(dates, n) ==
    IF n + 1 <= Len(dates) THEN dates[n + 1] ELSE NoDate

\* NthIndex with an index past the end clamped to the last element
NthIndexClamped(dates, n) ==
    IF n >= 1 /\ n <= Len(dates) THEN dates[n]
    ELSE IF n > Len(dates) /\ Len(dates) > 0 THEN dates[Len(dates)] ELSE NoDate

\* dates[n as usize - 1]: NoDate stands for the panic of the index (n = 0
\* underflows or wraps to an index past the end; n > len is past the end)
NthIndex(dates, n) ==
    IF n >= 1 /\ n <= Len(dates) THEN dates[n] ELSE NoDate

nth_weekday_of_month(y, m, n, target_weekday) ==
    NthIndex(WeekdayDatesFrom(from_ymd_opt(y, m, 1), m, target_weekday, <<>>), n)

Holiday(name, date, substitute) ==
    [name |-> name, date |-> date, substitute |-> substitute]

\* one iteration of the for loop of prepare_holidays: the Holiday pushed, or
\* the unwrap that panics (err names the failure in the spec's taxonomy)
ExpandRule(item, y) ==
    IF item.relative
    THEN LET parts == item.condition
             m == get_month_num_from_string(parts[1])
             n == parts[2]
             w == get_weekday_from_string(parts[3])
         IN  IF m = NoMonth \/ w = NoWeekday
             THEN [err |-> "UnknownRuleToken", holiday |-> Holiday(<<>>, NoDate, FALSE)]
             ELSE LET d == nth_weekday_of_month(y, m, n, w) IN
                  IF d = NoDate
                  THEN [err |-> "OccurrenceNotFound", holiday |-> Holiday(<<>>, NoDate, FALSE)]
                  ELSE [err |-> "", holiday |-> Holiday(<<item.name>>, parse_ymd(format_ymd(d)), FALSE)]
    ELSE LET conditions == item.date
             date_opt == from_ymd_opt(y, conditions[1], conditions[2])
         IN  IF date_opt = NoDate
             THEN [err |-> "InvalidDate", holiday |-> Holiday(<<>>, NoDate, FALSE)]
             ELSE [err |-> "", holiday |-> Holiday(<<item.name>>, date_opt, FALSE)]

RECURSIVE PrepareFrom(_, _, _, _)
PrepareFrom(json, y, k, acc) ==
    IF k > Len(json) THEN [err |-> "", holidays |-> acc]
    ELSE LET r == ExpandRule(json[k], y) IN
         IF r.err # "" THEN [err |-> r.err, holidays |-> <<>>]
         ELSE PrepareFrom(json, y, k + 1, Append(acc, r.holiday))

prepare_holidays(json, y) == PrepareFrom(json, y, 1, <<>>)

(***************************************************************************)
(* Equinox Resolver.                                                       *)
(***************************************************************************)
\* OutsideEquinoxRange with the two comparisons not strict
OutsideEquinoxRangeExclusive(y) == y <= MinEquinoxYear \/ y >= MaxEquinoxYear

\* get_equinox_date: if year < 2020 || year > 2050 { return Vec::new(); }
OutsideEquinoxRange(y) == y < MinEquinoxYear \/ y > MaxEquinoxYear

\* the local substitute check of one equinox: Some(Holiday) as a sequence of
\* one element, None as the empty sequence
EquinoxSubstitute(name, date) ==
    IF weekday(date) = Sun THEN <<Holiday(<<name>>, date + 1, TRUE)>> ELSE <<>>

\* dates is the table's entry of the year: spring and fall as <<month, day>>,
\* the "MM-DD" strings of equinox_base_dates.json
get_equinox_date(y, dates) ==
    IF OutsideEquinoxRange(y) THEN <<>>
    ELSE LET spring == parse_ymd(<<y>> \o dates.spring)
             fall == parse_ymd(<<y>> \o dates.fall)
             spring_substitute == EquinoxSubstitute("shunbun_no_hi(furikae_kyujitsu)", spring)
             fall_substitute == EquinoxSubstitute("shubun_no_hi(furikae_kyujitsu)", fall)
         IN  <<Holiday(<<"shunbun_no_hi">>, spring, FALSE),
               Holiday(<<"shubun_no_hi">>, fall, FALSE)>>
             \o spring_substitute \o fall_substitute

\* the entries equinox_base_dates.json may hold for a year of its range: the
\* spring equinox in March, the fall equinox in September
SpringDays == 20..21
FallDays == 22..23
EquinoxEntries ==
    {[spring |-> <<3, s>>, fall |-> <<9, f>>] : s \in SpringDays, f \in FallDays}

(***************************************************************************)
(* Substitute-Day Engine.  Indices are those of the Vec (from 0); element  *)
(* j of the Vec is hs[j + 1].                                              *)
(***************************************************************************)
\* ScanBound with the length taken once, before the loop
ScanBoundAtStart(hs, n0) == n0

\* while i < holidays.len(): the bound is the length at the time of the test
ScanBound(hs, n0) == Len(hs)

\* the inner while let: i is advanced over the elements that follow in the
\* Vec and are dated one day after the last date of the run
RECURSIVE RunEnd(_, _, _)
RunEnd(hs, j, last_holiday_date) ==
    IF j + 1 < Len(hs) /\ hs[j + 2].date = last_holiday_date + 1
    THEN RunEnd(hs, j + 1, hs[j + 2].date)
    ELSE j

\* SubstituteCandidate with the day taken off instead of added
SubstituteCandidateBefore(last_holiday_date) == last_holiday_date - 1

\* let mut substitute_date = last_holiday_date + Duration::days(1)
SubstituteCandidate(last_holiday_date) == last_holiday_date + 1

\* holidays.iter().any(|h| h.date == substitute_date)
Occupied(hs, substitute_date) ==
    \E k \in 1..Len(hs) : hs[k].date = substitute_date

\* FreeDate with an if in place of the while: one collision is stepped over
FreeDateOnce(hs, substitute_date) ==
    IF Occupied(hs, substitute_date) THEN substitute_date + 1 ELSE substitute_date

\* while occupied { substitute_date = substitute_date + Duration::days(1) }
RECURSIVE FreeDate(_, _)
FreeDate(hs, substitute_date) ==
    IF Occupied(hs, substitute_date)
    THEN FreeDate(hs, substitute_date + 1)
    ELSE substitute_date

\* format!("振替休日({})", holidays[i].name)
SubstituteName(name) == <<"furikae_kyujitsu">> \o name

\* NextScanIndex with the increment left out
NextScanIndexStuck(j) == j

\* i += 1 at the end of the body of the outer loop
NextScanIndex(j) == j + 1

(***************************************************************************)
(* Result Assembler.                                                       *)
(***************************************************************************)
\* where a stable sort by date puts h in the sorted sequence s: after every
\* element whose date is not later
RECURSIVE InsertByDate(_, _)
InsertByDate(s, h) ==
    IF s = <<>> THEN <<h>>
    ELSE IF s[Len(s)].date <= h.date THEN Append(s, h)
    ELSE Append(InsertByDate(SubSeq(s, 1, Len(s) - 1), h), s[Len(s)])

RECURSIVE SortByDate(_)
SortByDate(hs) ==
    IF hs = <<>> THEN <<>>
    ELSE InsertByDate(SortByDate(SubSeq(hs, 1, Len(hs) - 1)), hs[Len(hs)])

\* time is datetime.timestamp() of midnight UTC, an i64 that does not overflow;
\* the model keeps it in whole days since 1970-01-01 (86400 seconds each)
HolidayShapedItem(h) ==
    [name |-> h.name, date |-> format_ymd(h.date),
     time |-> h.date - UnixEpochDay, substitute |-> h.substitute]

format_by_holidays(hs) ==
    LET sorted == SortByDate(hs) IN
    [k \in 1..Len(sorted) |-> HolidayShapedItem(sorted[k])]

OutputFormat(y, hs) ==
    [year |-> y, holidays |-> format_by_holidays(hs),
     message |-> "The vernal and autumnal equinoxes of future dates are predictions."]

(***************************************************************************)
(* Inputs: the year and the rule catalog (base.json).                      *)
(***************************************************************************)
Years == {2019, 2020, 2024, 2027, 2050, 2051}

Fixed(name, m, d) ==
    [name |-> name, date |-> <<m, d>>, relative |-> FALSE, condition |-> <<>>]

Floating(name, m, n, w) ==
    [name |-> name, date |-> <<>>, relative |-> TRUE, condition |-> <<m, n, w>>]

SmallPool ==
    {Fixed("A", 3, 19), Fixed("B", 3, 20), Fixed("C", 3, 21), Fixed("D", 3, 22),
     Fixed("E", 3, 23), Floating("F", "MARCH", 4, "Mon"), Floating("G", "mar", 5, "sat")}

Range(s) == {s[k] : k \in 1..Len(s)}

\* the catalogs of at most n rules of SmallPool, no rule twice
RECURSIVE CatalogsUpTo(_)
CatalogsUpTo(n) ==
    IF n = 0 THEN {<<>>}
    ELSE LET prev == CatalogsUpTo(n - 1) IN
         prev \cup {Append(c, r) : <<c, r>> \in
                      {x \in prev \X SmallPool : Len(x[1]) = n - 1 /\ x[2] \notin Range(x[1])}}

MonthTokens ==
    {"Jan", "feb", "MARCH", "apr", "may", "june", "jul", "august", "Sep", "oct",
     "november", "dec", "jann"}

WeekdayTokens ==
    {"Mon", "tue", "wednesday", "thu", "friday", "sat", "SUNDAY", "mond"}

\* the catalogs of one rule: every fixed rule and every floating rule
SingleRuleCatalogs ==
    {<<Fixed("X", m, d)>> : m \in 1..13, d \in 1..31}
    \cup {<<Floating("X", m, n, w)>> : m \in MonthTokens, n \in 0..MaxOccurrence,
                                       w \in WeekdayTokens}

\* a week of holidays from a Sunday of 2027, not in date order
OutOfOrderWeek ==
    <<Fixed("d21", 3, 21), Fixed("d23", 3, 23), Fixed("d22", 3, 22), Fixed("d24", 3, 24),
      Fixed("d25", 3, 25), Fixed("d26", 3, 26), Fixed("d27", 3, 27)>>

\* the same from 14 March, followed by the next Sunday
TwoSundays ==
    <<Fixed("d14", 3, 14), Fixed("d16", 3, 16), Fixed("d15", 3, 15), Fixed("d17", 3, 17),
      Fixed("d18", 3, 18), Fixed("d19", 3, 19), Fixed("d20", 3, 20), Fixed("d21", 3, 21)>>

\* eight holidays in date order from a Sunday of 2027 to the next Sunday
LongRun ==
    <<Fixed("d21", 3, 21), Fixed("d22", 3, 22), Fixed("d23", 3, 23), Fixed("d24", 3, 24),
      Fixed("d25", 3, 25), Fixed("d26", 3, 26), Fixed("d27", 3, 27), Fixed("d28", 3, 28)>>

\* OutOfOrderWeek after the following Sunday
SundayFirst == <<Fixed("d28", 3, 28)>> \o OutOfOrderWeek

\* 3 May 2020 is a Sunday
GoldenWeek ==
    <<Fixed("showa", 4, 29), Fixed("kenpo", 5, 3), Fixed("midori", 5, 4),
      Fixed("kodomo", 5, 5), Floating("umi", "jul", 3, "Mon")>>

Catalogs ==
    CatalogsUpTo(MaxRules) \cup SingleRuleCatalogs
    \cup {OutOfOrderWeek, TwoSundays, LongRun, SundayFirst, GoldenWeek}

(***************************************************************************)
(* The resolution call holidays(year), step by step.                       *)
(*   pc: start -> equinox -> check -> extend -> format -> done, or panic.  *)
(* startLen and log are history: the length of the Vec when the engine     *)
(* started and, for every substitute the engine pushed, the scan index at  *)
(* which the Sunday was found (at), the index of the last element of the   *)
(* detected run (end) and the index of the substitute (sub).               *)
(***************************************************************************)
Init ==
    /\ year \in Years
    /\ catalog \in Catalogs
    /\ pc = "start"
    /\ holidays = <<>>
    /\ equinox_dates = <<>>
    /\ i = 0
    /\ startLen = 0
    /\ log = <<>>
    /\ output = <<>>
    /\ error = ""

\* let mut prepara_holidays = prepare_holidays(json, year);
PrepareOk ==
    /\ pc = "start"
    /\ LET r == prepare_holidays(catalog, year) IN
       /\ r.err = ""
       /\ holidays' = r.holidays
    /\ pc' = "equinox"
    /\ UNCHANGED <<year, catalog, equinox_dates, i, startLen, log, output, error>>

\* an unwrap or the index of prepare_holidays panics: the call unwinds, the
\* Vec built so far is dropped and nothing is returned
PreparePanic ==
    /\ pc = "start"
    /\ LET r == prepare_holidays(catalog, year) IN
       /\ r.err # ""
       /\ error' = r.err
    /\ pc' = "panic"
    /\ UNCHANGED <<year, catalog, holidays, equinox_dates, i, startLen, log, output>>

\* let equinox_dates = get_equinox_date(year);
GetEquinox ==
    /\ pc = "equinox"
    /\ \E dates \in EquinoxEntries : equinox_dates' = get_equinox_date(year, dates)
    /\ pc' = "check"
    /\ i' = 0
    /\ startLen' = Len(holidays)
    /\ UNCHANGED <<year, catalog, holidays, log, output, error>>

\* one iteration of the outer loop of check_substitute_holidays
CheckStep ==
    /\ pc = "check"
    /\ i < ScanBound(holidays, startLen)
    /\ Len(holidays) < MaxList
    /\ IF weekday(holidays[i + 1].date) = Sun
       THEN LET end == RunEnd(holidays, i, holidays[i + 1].date)
                last_holiday_date == holidays[end + 1].date
                substitute_date == FreeDate(holidays, SubstituteCandidate(last_holiday_date))
            IN  /\ holidays' = Append(holidays,
                                  Holiday(SubstituteName(holidays[end + 1].name),
                                          substitute_date, TRUE))
                /\ log' = Append(log, [at |-> i, end |-> end, sub |-> Len(holidays)])
                /\ i' = NextScanIndex(end)
       ELSE /\ i' = NextScanIndex(i)
            /\ UNCHANGED <<holidays, log>>
    /\ UNCHANGED <<year, catalog, pc, equinox_dates, startLen, output, error>>

\* the test of the outer loop fails: check_substitute_holidays returns
CheckExit ==
    /\ pc = "check"
    /\ ~(i < ScanBound(holidays, startLen))
    /\ pc' = "extend"
    /\ UNCHANGED <<year, catalog, holidays, equinox_dates, i, startLen, log, output, error>>

\* prepara_holidays.extend(equinox_dates);
Extend ==
    /\ pc = "extend"
    /\ holidays' = holidays \o equinox_dates
    /\ pc' = "format"
    /\ UNCHANGED <<year, catalog, equinox_dates, i, startLen, log, output, error>>

\* OutputFormat { year, holidays: format_by_holidays(..), message }; json_output
Format ==
    /\ pc = "format"
    /\ output' = <<OutputFormat(year, holidays)>>
    /\ pc' = "done"
    /\ UNCHANGED <<year, catalog, holidays, equinox_dates, i, startLen, log, error>>

Next ==
    \/ PrepareOk
    \/ PreparePanic
    \/ GetEquinox
    \/ CheckStep
    \/ CheckExit
    \/ Extend
    \/ Format

Spec == Init /\ [][Next]_vars

\* the call is synchronous and single-threaded: once the engine has started,
\* its loop runs until its test fails, so an iteration that can be taken is
\* taken and the return that can be taken is taken
FairSpec == Spec /\ WF_vars(CheckStep) /\ WF_vars(CheckExit)

(***************************************************************************)
(* Properties.                                                             *)
(***************************************************************************)
Dates(hs) == {hs[k].date : k \in 1..Len(hs)}

\* the entries of log, and the engine's Vec as it was at its return
Logged == Range(log)
EngineReturned == pc \in {"extend", "format", "done"}

\* the catalog's rules expanded to pairwise distinct dates
CatalogDatesDistinct ==
    \A a, b \in 1..Len(catalog) : a # b => holidays[a].date # holidays[b].date

\* C1: the list returned by holidays(y) holds no two entries with the same
\* date, for a catalog whose rules expand to pairwise distinct dates.
NoDuplicateDatesInResult ==
    (pc = "done" /\ CatalogDatesDistinct) =>
        LET out == output[1].holidays IN
        \A a, b \in 1..Len(out) : a # b => out[a].date # out[b].date

\* which equinox an equinox substitute stands for: its place in equinox_dates
EquinoxOf(h) == IF h.name = <<"shunbun_no_hi(furikae_kyujitsu)">> THEN 1 ELSE 2

\* C2: every substitute is dated strictly later than the holiday that
\* triggered it: an engine substitute later than the Sunday holiday at the
\* scan index and than every holiday of its run, an equinox substitute later
\* than its equinox; and every substitute of the result is one of these.
SubstituteAfterTrigger ==
    /\ \A e \in Logged :
          /\ holidays[e.sub + 1].substitute
          /\ weekday(holidays[e.at + 1].date) = Sun
          /\ \A k \in e.at..e.end : holidays[e.sub + 1].date > holidays[k + 1].date
    /\ \A k \in 1..Len(equinox_dates) :
          equinox_dates[k].substitute =>
              equinox_dates[k].date > equinox_dates[EquinoxOf(equinox_dates[k])].date
    /\ pc = "done" =>
          LET out == output[1].holidays IN
          \A k \in 1..Len(out) :
              out[k].substitute =>
                  \/ \E e \in Logged : out[k] = HolidayShapedItem(holidays[e.sub + 1])
                  \/ \E j \in 1..Len(equinox_dates) :
                        /\ equinox_dates[j].substitute
                        /\ out[k] = HolidayShapedItem(equinox_dates[j])

\* a result with a substitute of a run of several holidays and a substitute
\* of an equinox
RunAndEquinoxSubstituted ==
    /\ pc = "done"
    /\ \E e \in Logged : e.end > e.at
    /\ \E k \in 1..Len(equinox_dates) : equinox_dates[k].substitute

\* C3: the equinox holidays and equinox substitutes are elements of the list
\* the engine scans: they are in the Vec while check_substitute_holidays runs.
EngineScansUnion ==
    pc = "check" =>
        \A k \in 1..Len(equinox_dates) : \E j \in 1..Len(holidays) : holidays[j] = equinox_dates[k]

\* the Sunday test of the engine succeeds at the scan index
SundayAtIndex ==
    pc = "check" /\ i < Len(holidays) /\ weekday(holidays[i + 1].date) = Sun

\* elements a..b of the Vec are dated on consecutive days
IsRun(hs, a, b) == \A k \in a..(b - 1) : hs[k + 2].date = hs[k + 1].date + 1

\* the last index of the longest run that starts at index a
LongestRunEnd(hs, a) ==
    CHOOSE b \in a..(Len(hs) - 1) :
        /\ IsRun(hs, a, b)
        /\ b + 1 < Len(hs) => hs[b + 2].date # hs[b + 1].date + 1

\* the earliest date after `after` that no element of hs has
EarliestFree(hs, after) ==
    CHOOSE d \in (after + 1)..(after + Len(hs) + 1) :
        /\ d \notin Dates(hs)
        /\ \A x \in (after + 1)..(d - 1) : x \in Dates(hs)

\* C4: for a Sunday holiday at the scan index the engine appends exactly one
\* substitute for the whole run that starts there, dated the earliest date
\* after the run's last date that no holiday of the list has, and the scan
\* goes on after the run.
OneSubstitutePerRun ==
    [][SundayAtIndex =>
          LET b == LongestRunEnd(holidays, i) IN
          /\ Len(holidays') = Len(holidays) + 1
          /\ SubSeq(holidays', 1, Len(holidays)) = holidays
          /\ holidays'[Len(holidays')].substitute
          /\ holidays'[Len(holidays')].date = EarliestFree(holidays, holidays[b + 1].date)
          /\ i' = b + 1]_vars

\* a substitute of a run of several holidays that had to step over a holiday
RunSubstituteAfterCollision ==
    \E e \in Logged :
        /\ e.end > e.at
        /\ holidays[e.sub + 1].date > holidays[e.end + 1].date + 1

EquinoxNames ==
    {<<"shunbun_no_hi">>, <<"shubun_no_hi">>,
     <<"shunbun_no_hi(furikae_kyujitsu)">>, <<"shubun_no_hi(furikae_kyujitsu)">>}

\* what the resolver is to return for the equinoxes on days s and f
EquinoxExpected(s, f) ==
    LET spring == from_ymd_opt(year, 3, s)
        fall == from_ymd_opt(year, 9, f)
    IN  {Holiday(<<"shunbun_no_hi">>, spring, FALSE), Holiday(<<"shubun_no_hi">>, fall, FALSE)}
        \cup (IF weekday(spring) = Sun
              THEN {Holiday(<<"shunbun_no_hi(furikae_kyujitsu)">>, spring + 1, TRUE)} ELSE {})
        \cup (IF weekday(fall) = Sun
              THEN {Holiday(<<"shubun_no_hi(furikae_kyujitsu)">>, fall + 1, TRUE)} ELSE {})

\* C5: outside 2020..2050 get_equinox_date returns the empty list and the
\* result has no equinox entry; inside, it returns the two equinoxes, not
\* substitutes, and for each of them a substitute on the following day if and
\* only if that equinox is a Sunday.
EquinoxResolverContract ==
    pc \in {"check", "extend", "format", "done"} =>
        IF year \in MinEquinoxYear..MaxEquinoxYear
        THEN \E s \in SpringDays, f \in FallDays :
                /\ Range(equinox_dates) = EquinoxExpected(s, f)
                /\ Len(equinox_dates) = Cardinality(EquinoxExpected(s, f))
        ELSE /\ equinox_dates = <<>>
             /\ pc = "done" =>
                   \A k \in 1..Len(output[1].holidays) :
                       output[1].holidays[k].name \notin EquinoxNames

\* a year of the table whose equinox is a Sunday, resolved
SundayEquinoxResolved ==
    /\ pc = "done"
    /\ year \in MinEquinoxYear..MaxEquinoxYear
    /\ Len(equinox_dates) = 3

\* the dates of month m of year y that fall on weekday w
WeekdaysOfMonth(y, m, w) ==
    {d \in from_ymd_opt(y, m, 1)..from_ymd_opt(y, m, DaysInMonth(y, m)) : weekday(d) = w}

\* d is the n-th date, in ascending order, of month m of year y on weekday w
IsNthWeekday(d, y, m, n, w) ==
    /\ d \in WeekdaysOfMonth(y, m, w)
    /\ Cardinality({x \in WeekdaysOfMonth(y, m, w) : x <= d}) = n

RuleMonth(k) == get_month_num_from_string(catalog[k].condition[1])
RuleWeekday(k) == get_weekday_from_string(catalog[k].condition[3])
RuleOccurrence(k) == catalog[k].condition[2]

\* rule k is a floating rule with known tokens
FloatingRule(k) ==
    catalog[k].relative /\ RuleMonth(k) # NoMonth /\ RuleWeekday(k) # NoWeekday

MissingOccurrence(k) ==
    /\ FloatingRule(k)
    /\ RuleOccurrence(k) > Cardinality(WeekdaysOfMonth(year, RuleMonth(k), RuleWeekday(k)))

SubstituteNamedAfterSunday ==
    \A e \in Logged :
        holidays[e.sub + 1].name = SubstituteName(holidays[e.at + 1].name)

\* C9 as stated: the scan index never reaches an element appended during the
\* pass, and no appended substitute causes a further substitute.
ScanCoversOnlyOriginal ==
    /\ (pc = "check" /\ i < Len(holidays)) => i < startLen
    /\ \A e \in Logged : e.at < startLen

\* C9 as amended: the scan covers the whole Vec, appended elements too: at
\* the engine's return the scan index is the final length, every appended
\* substitute on a Sunday was either examined at the scan index and caused a
\* further substitute or was taken into a run, and only Sundays cause one.
ScanCoversAppended ==
    /\ EngineReturned => i = startLen + Len(log)
    /\ EngineReturned =>
          \A k \in startLen..(startLen + Len(log) - 1) :
              weekday(holidays[k + 1].date) = Sun =>
                  \E e \in Logged : e.at <= k /\ k <= e.end
    /\ \A e \in Logged : weekday(holidays[e.at + 1].date) = Sun

\* an appended substitute was examined at the scan index and caused a
\* further substitute
AppendedCausedSubstitute == \E e \in Logged : e.at >= startLen

\* the cap of CheckStep is never reached
ListBelowCap == Len(holidays) < MaxList

\* C10: check_substitute_holidays terminates: once started, the scan reaches
\* the end of the Vec and the engine returns, after finitely many appends.
EngineTerminates ==
    /\ [](pc = "check" => ListBelowCap)
    /\ [](pc = "check" => <>(pc = "extend"))

\* the engine has returned after a pass in which the Vec grew at least twice
EngineReturnedAfterGrowth ==
    /\ pc = "extend"
    /\ Len(log) >= 2
    /\ i > startLen + 1

====
